---- MODULE Spec2Model ----
(***************************************************************************)
(* A model of the queue family of materials-queue/src/queues.py (Queue,    *)
(* Stack, PriorityQueue, MutableMinHeap), of shortest_path in              *)
(* yuhua_graph_test.py, and of the asyncio crawler of async_queues.py      *)
(* (main and its worker tasks around one shared asyncio.PriorityQueue).    *)
(***************************************************************************)
EXTENDS Integers, Sequences, FiniteSets, TLC

VARIABLES
    elements,           \* self._elements of the container under study
    counter,            \* next value of self._counter (itertools.count())
    elements_by_value,  \* MutableMinHeap._elements_by_value
    log                 \* the calls made on the container and what they returned
                        \* (of a MutableMinHeap, the two most recent calls)

containerVars == <<elements, counter, elements_by_value, log>>

VARIABLES
    network,        \* the graph: the set of neighbors of every node
    source,         \* shortest_path's arguments
    destination,
    sp_pc,          \* where shortest_path is: "while", "for" or "return"
    sp_queue,       \* queue._elements
    visited,
    previous,
    node,           \* the node dequeued last
    neighbors,      \* what the iteration over node's neighbors has yet to yield
    result          \* what shortest_path returned

VARIABLES
    tr_network,     \* the graph that is traversed: the set of neighbors of a node
    neighbor_order, \* the order network.neighbors(node) yields them in
    root,
    calls,          \* the traversals that are still to be called
    running,        \* the generator that is running: "bfs", "dfs" or "none"
    tr_pc,          \* where it is: "while", "for" or "off"
    tr_q,           \* q._elements
    seen,           \* the set `visited` of the generator
    iterating,      \* what the for loop of bfs has yet to get from `neighbors`
    yielded,        \* the nodes the generator has yielded so far
    outputs         \* what the generators that are exhausted have yielded

travVars == <<tr_network, neighbor_order, root, calls, running, tr_pc, tr_q, seen,
              iterating, yielded, outputs>>

spVars == <<network, source, destination, sp_pc, sp_queue, visited, previous,
            node, neighbors, result>>

pathVars == <<spVars, travVars>>

VARIABLES
    max_depth,          \* args.max_depth
    num_workers,        \* args.num_workers
    main_pc,            \* where main is: "put", "join", "wait", "cancel",
                        \* "gather", "display", "done" or "raised"
    queue,              \* the heap of the asyncio.PriorityQueue
    unfinished_tasks,   \* queue._unfinished_tasks
    finished,           \* whether the Event queue._finished is set
    join_waiter,        \* the future main waits on inside queue.join():
                        \* "none", "pending" or "done"
    links,              \* the Counter of urls
    pc,                 \* where each worker is: "get", "fetch", "put",
                        \* "finally", "cancelled" or "failed"
    depth,              \* the depth of the Job each worker dequeued last
    found,              \* the links parse_links has yet to yield to each worker
    exc,                \* the exception raised in each worker and not handled
    cancelling,         \* the workers whose task.cancel() has yet to be delivered
    gathered,           \* what asyncio.gather returned to main
    holding,            \* per worker: Jobs dequeued less completion signals given
    puts,               \* per url: how many Jobs of that url were put
    failures            \* the number of "failed at" lines on stderr

poolVars == <<max_depth, num_workers, main_pc, queue, unfinished_tasks, finished,
              join_waiter, links, pc, depth, found, exc, cancelling, gathered,
              holding, puts, failures>>

\* multiprocess_queue.main and the Worker processes it starts: the number of
\* workers, the statement main is at, the Jobs main has yet to put, the two
\* queues, the statement each Worker.run is at, the job it took, and what
\* main has printed.
VARIABLES num_procs, mp_pc, todo, queue_in, queue_out, run_pc, job, printed

procVars == <<num_procs, mp_pc, todo, queue_in, queue_out, run_pc, job, printed>>

vars == <<containerVars, pathVars, poolVars, procVars>>

\* The number of calls made on a container in one behaviour.
MaxOps == 6

\* The elements a client puts in one container at most.
MaxHeld == 3

\* The number of Jobs of a crawl, at most: the seed and the links that the
\* pages fetched hold in all.
MaxJobs == 3

\* The greatest --num-workers.
MaxWorkers == 2

\* The Worker processes main starts at most.
MaxProcs == 2

\* The Jobs main puts on queue_in at most.
MaxChunks == 2

\* Urls, as sequences of characters: two of one length and a longer one.
Urls == {<<"a">>, <<"b">>, <<"c", "c">>}

\* The number of nodes of a graph.
NumNodes == 5

Nodes == 1..NumNodes

\* The number of edges of a graph, at most.
MaxEdges == 5

\* The number of nodes and, at most, of edges of a graph that is traversed.
NumCities == 4

MaxRoads == 3

Values == {"a", "b"}

Priorities == 1..3

Keys == {"a", "b", "c"}

(***************************************************************************)
(* The < of the classes whose instances are kept in heaps.                 *)
(***************************************************************************)
\* Python's < on two 3-tuples.
TupleLt(a, b) ==
    \/ a[1] < b[1]
    \/ a[1] = b[1] /\ a[2] < b[2]
    \/ a[1] = b[1] /\ a[2] = b[2] /\ a[3] < b[3]

\* @dataclass(order=True): < on (priority, count, value).
ElementLt(a, b) ==
    \/ a.priority < b.priority
    \/ a.priority = b.priority /\ a.count < b.count
    \/ a.priority = b.priority /\ a.count = b.count /\ a.value < b.value

\* Job.__lt__: by the length of the url.
JobLt(a, b) == Len(a.url) < Len(b.url)

\* a < b for two items of class cls.
Lt(cls, a, b) ==
    CASE cls = "tuple"   -> TupleLt(a, b)
      [] cls = "Element" -> ElementLt(a, b)
      [] cls = "Job"     -> JobLt(a, b)

(***************************************************************************)
(* heapq, as the containers use it.  A heap is a sequence; position pos of *)
(* the Python list is index pos + 1 of the sequence; cls is the class of   *)
(* the items, whose < orders them.                                         *)
(***************************************************************************)
At(heap, pos) == heap[pos + 1]

Put(heap, pos, item) == [heap EXCEPT ![pos + 1] = item]

RECURSIVE siftdown_loop(_, _, _, _, _)
siftdown_loop(cls, heap, startpos, pos, newitem) ==
    IF pos > startpos /\ Lt(cls, newitem, At(heap, (pos - 1) \div 2))
    THEN siftdown_loop(cls, Put(heap, pos, At(heap, (pos - 1) \div 2)),
                       startpos, (pos - 1) \div 2, newitem)
    ELSE Put(heap, pos, newitem)

siftdown(cls, heap, startpos, pos) ==
    siftdown_loop(cls, heap, startpos, pos, At(heap, pos))

RECURSIVE siftup_loop(_, _, _, _, _)
siftup_loop(cls, heap, startpos, pos, newitem) ==
    LET endpos   == Len(heap)
        leftpos  == 2 * pos + 1
        rightpos == leftpos + 1
        childpos == IF rightpos < endpos
                       /\ ~Lt(cls, At(heap, leftpos), At(heap, rightpos))
                    THEN rightpos
                    ELSE leftpos
    IN  IF leftpos < endpos
        THEN siftup_loop(cls, Put(heap, pos, At(heap, childpos)),
                         startpos, childpos, newitem)
        ELSE siftdown(cls, Put(heap, pos, newitem), startpos, pos)

siftup(cls, heap, pos) == siftup_loop(cls, heap, pos, pos, At(heap, pos))

heappush(cls, heap, item) ==
    siftdown(cls, Append(heap, item), 0, Len(heap))

\* The item popped and the heap left, given a non-empty heap.
heappop(cls, heap) ==
    LET lastelt == heap[Len(heap)]
        rest    == SubSeq(heap, 1, Len(heap) - 1)
    IN  IF Len(rest) > 0
        THEN [item |-> rest[1], heap |-> siftup(cls, Put(rest, 0, lastelt), 0)]
        ELSE [item |-> lastelt, heap |-> rest]

RECURSIVE heapify_loop(_, _, _)
heapify_loop(cls, heap, i) ==
    IF i < 0 THEN heap ELSE heapify_loop(cls, siftup(cls, heap, i), i - 1)

heapify(cls, heap) == heapify_loop(cls, heap, (Len(heap) \div 2) - 1)

(***************************************************************************)
(* The log of calls.                                                       *)
(***************************************************************************)
IsEnqueue(e) == e.op = "enqueue"

IsDequeue(e) == e.op = "dequeue"

IsSetitem(e) == e.op = "setitem"

ValuesOf(entries) == [i \in DOMAIN entries |-> entries[i].value]

Enqueued == ValuesOf(SelectSeq(log, IsEnqueue))

Dequeued == ValuesOf(SelectSeq(log, IsDequeue))

Reverse(s) == [i \in DOMAIN s |-> s[Len(s) + 1 - i]]

(***************************************************************************)
(* Python values.                                                          *)
(***************************************************************************)
None == [type |-> "NoneType", items |-> <<>>]

List(items) == [type |-> "list", items |-> items]

\* No graph is searched while a container is studied.
NoPath ==
    /\ network = <<>>
    /\ source = 0
    /\ destination = 0
    /\ sp_pc = "off"
    /\ sp_queue = <<>>
    /\ visited = {}
    /\ previous = <<>>
    /\ node = 0
    /\ neighbors = {}
    /\ result = None

\* No graph is traversed while something else is studied.
NoTraversal ==
    /\ tr_network = <<>>
    /\ neighbor_order = <<>>
    /\ root = 0
    /\ calls = <<>>
    /\ running = "none"
    /\ tr_pc = "off"
    /\ tr_q = <<>>
    /\ seen = {}
    /\ iterating = <<>>
    /\ yielded = <<>>
    /\ outputs = <<>>

\* No process pool runs while something else is studied.
NoProcesses ==
    /\ num_procs = 0
    /\ mp_pc = "off"
    /\ todo = <<>>
    /\ queue_in = <<>>
    /\ queue_out = <<>>
    /\ run_pc = <<>>
    /\ job = <<>>
    /\ printed = <<>>

\* No crawl runs while a container or a graph is studied.
NoPool ==
    /\ max_depth = 0
    /\ num_workers = 0
    /\ main_pc = "off"
    /\ queue = <<>>
    /\ unfinished_tasks = 0
    /\ finished = TRUE
    /\ join_waiter = "none"
    /\ links = <<>>
    /\ pc = <<>>
    /\ depth = <<>>
    /\ found = <<>>
    /\ exc = <<>>
    /\ cancelling = {}
    /\ gathered = <<>>
    /\ holding = <<>>
    /\ puts = <<>>
    /\ failures = 0

\* No container is studied while a graph is searched or a crawl runs.
NoContainer ==
    /\ elements = <<>>
    /\ counter = 0
    /\ elements_by_value = <<>>
    /\ log = <<>>

(***************************************************************************)
(* Queue and Stack.                                                        *)
(***************************************************************************)
IterableMixin_len(els) == Len(els)

Queue_init(args) == args

Queue_enqueue_Left(els, element) == <<element>> \o els

Queue_enqueue(els, element) == Append(els, element)

Queue_dequeue_Stacked(els) ==
    [ret |-> els[Len(els)], elements |-> SubSeq(els, 1, Len(els) - 1)]

Queue_dequeue(els) == [ret |-> Head(els), elements |-> Tail(els)]

Queue_peak_Newest(els) == els[Len(els)]

Queue_peak(els) == els[1]

Stack_dequeue_Queued(els) == [ret |-> Head(els), elements |-> Tail(els)]

Stack_dequeue(els) ==
    [ret |-> els[Len(els)], elements |-> SubSeq(els, 1, Len(els) - 1)]

Stack_peak(els) == els[Len(els)]

\* Queue(*args) or Stack(*args), with no argument or one.
InitDeque ==
    /\ NoPath
    /\ NoTraversal
    /\ NoProcesses
    /\ NoPool
    /\ \E args \in {<<>>} \cup {<<x>> : x \in Values} :
          /\ elements = Queue_init(args)
          /\ log = [i \in DOMAIN args |-> [op |-> "enqueue", value |-> args[i]]]
    /\ counter = 0
    /\ elements_by_value = <<>>

Enqueue ==
    /\ UNCHANGED <<pathVars, poolVars, procVars>>
    /\ Len(log) < MaxOps
    /\ \E x \in Values :
          /\ elements' = Queue_enqueue(elements, x)
          /\ log' = Append(log, [op |-> "enqueue", value |-> x])
    /\ UNCHANGED <<counter, elements_by_value>>

QueueDequeue ==
    /\ UNCHANGED <<pathVars, poolVars, procVars>>
    /\ Len(log) < MaxOps
    /\ IterableMixin_len(elements) > 0
    /\ LET r == Queue_dequeue(elements)
       IN  /\ elements' = r.elements
           /\ log' = Append(log, [op |-> "dequeue", value |-> r.ret])
    /\ UNCHANGED <<counter, elements_by_value>>

StackDequeue ==
    /\ UNCHANGED <<pathVars, poolVars, procVars>>
    /\ Len(log) < MaxOps
    /\ IterableMixin_len(elements) > 0
    /\ LET r == Stack_dequeue(elements)
       IN  /\ elements' = r.elements
           /\ log' = Append(log, [op |-> "dequeue", value |-> r.ret])
    /\ UNCHANGED <<counter, elements_by_value>>

(***************************************************************************)
(* PriorityQueue: a heap of tuples (-priority, count, value).              *)
(***************************************************************************)
PriorityQueue_enqueue_with_priority_Uncounted(els, cnt, priority, value) ==
    [elements |-> heappush("tuple", els, <<-priority, 0 - cnt, value>>),
     counter  |-> cnt + 1]

PriorityQueue_enqueue_with_priority(els, cnt, priority, value) ==
    [elements |-> heappush("tuple", els, <<-priority, cnt, value>>),
     counter  |-> cnt + 1]

PriorityQueue_dequeue(els) ==
    LET r == heappop("tuple", els)
    IN  [ret |-> r.item[3], elements |-> r.heap]

InitPriorityQueue ==
    /\ NoPath
    /\ NoTraversal
    /\ NoProcesses
    /\ NoPool
    /\ elements = <<>>
    /\ counter = 0
    /\ log = <<>>
    /\ elements_by_value = <<>>

PQEnqueue ==
    /\ UNCHANGED <<pathVars, poolVars, procVars>>
    /\ Len(log) < MaxOps
    /\ \E p \in Priorities, x \in Values :
          LET r == PriorityQueue_enqueue_with_priority(elements, counter, p, x)
          IN  /\ elements' = r.elements
              /\ counter' = r.counter
              /\ log' = Append(log, [op |-> "enqueue", priority |-> p, value |-> x])
    /\ UNCHANGED elements_by_value

PQDequeue ==
    /\ UNCHANGED <<pathVars, poolVars, procVars>>
    /\ Len(log) < MaxOps
    /\ IterableMixin_len(elements) > 0
    /\ LET r == PriorityQueue_dequeue(elements)
       IN  /\ elements' = r.elements
           /\ log' = Append(log, [op |-> "dequeue", value |-> r.ret])
    /\ UNCHANGED <<counter, elements_by_value>>

(***************************************************************************)
(* MutableMinHeap: a heap of Element objects that the mapping              *)
(* _elements_by_value also refers to.  An Element is identified by its     *)
(* count, which no two Elements of one heap share; assigning the priority  *)
(* of an Element changes it wherever it is referred to.                    *)
(***************************************************************************)
SetPriority(els, count, priority) ==
    [i \in DOMAIN els |->
        IF els[i].count = count THEN [els[i] EXCEPT !.priority = priority]
        ELSE els[i]]

MutableMinHeap_setitem_NoHeapify(els, by_value, cnt, unique_value, priority) ==
    IF unique_value \in DOMAIN by_value
    THEN [elements |-> SetPriority(els, by_value[unique_value].count, priority),
          elements_by_value |->
              [by_value EXCEPT ![unique_value].priority = priority],
          counter |-> cnt]
    ELSE LET element == [priority |-> priority, count |-> cnt,
                         value |-> unique_value]
         IN  [elements |-> heappush("Element", els, element),
              elements_by_value |-> (unique_value :> element) @@ by_value,
              counter |-> cnt + 1]

MutableMinHeap_setitem(els, by_value, cnt, unique_value, priority) ==
    IF unique_value \in DOMAIN by_value
    THEN [elements |->
              heapify("Element",
                      SetPriority(els, by_value[unique_value].count, priority)),
          elements_by_value |->
              [by_value EXCEPT ![unique_value].priority = priority],
          counter |-> cnt]
    ELSE LET element == [priority |-> priority, count |-> cnt,
                         value |-> unique_value]
         IN  [elements |-> heappush("Element", els, element),
              elements_by_value |-> (unique_value :> element) @@ by_value,
              counter |-> cnt + 1]

MutableMinHeap_getitem(by_value, unique_value) == by_value[unique_value].priority

MutableMinHeap_dequeue(els) ==
    LET r == heappop("Element", els)
    IN  [ret |-> r.item.value, elements |-> r.heap]

InitMutableMinHeap ==
    /\ NoPath
    /\ NoTraversal
    /\ NoProcesses
    /\ NoPool
    /\ elements = <<>>
    /\ counter = 0
    /\ log = <<>>
    /\ elements_by_value = <<>>

\* The log after one more call, cut to the two most recent calls.
Recent(entries, e) ==
    IF Len(entries) < 2 THEN Append(entries, e) ELSE <<entries[2], e>>

HeapSetitem ==
    /\ UNCHANGED <<pathVars, poolVars, procVars>>
    /\ \E k \in Keys, p \in Priorities :
          LET r == MutableMinHeap_setitem(elements, elements_by_value, counter, k, p)
          IN  /\ elements' = r.elements
              /\ elements_by_value' = r.elements_by_value
              /\ counter' = r.counter
              /\ log' = Recent(log, [op |-> "setitem", key |-> k, priority |-> p])

HeapDequeue ==
    /\ UNCHANGED <<pathVars, poolVars, procVars>>
    /\ IterableMixin_len(elements) > 0
    /\ LET r == MutableMinHeap_dequeue(elements)
       IN  /\ elements' = r.elements
           /\ log' = Recent(log, [op |-> "dequeue", value |-> r.ret])
    /\ UNCHANGED <<counter, elements_by_value>>

(***************************************************************************)
(* shortest_path(network, source, destination), with order_by left None,   *)
(* over an undirected graph.  The iteration over a node's neighbors yields *)
(* them in any order: every neighbor order a graph can have is covered.    *)
(***************************************************************************)
get_neighbors_of_node(net, n) == net[n]

\* The undirected graphs over Nodes of at most MaxEdges edges, without
\* self-loops.
Networks ==
    {[n \in Nodes |-> {m \in Nodes : {n, m} \in edges}] :
        edges \in {es \in SUBSET {e \in SUBSET Nodes : Cardinality(e) = 2} :
                      Cardinality(es) <= MaxEdges}}

RECURSIVE retrace_loop(_, _, _, _)
retrace_loop(prev, src, path, current) ==
    IF current # src
    THEN IF current \in DOMAIN prev
         THEN retrace_loop(prev, src, <<current>> \o path, prev[current])
         ELSE None
    ELSE List(<<src>> \o path)

retrace(prev, src, dst) == retrace_loop(prev, src, <<>>, dst)

\* Every graph over Nodes is drawn, and renaming the nodes of a graph turns a
\* search from any node into a search from the first one.
InitShortestPath ==
    /\ network \in Networks
    /\ source = CHOOSE n \in Nodes : \A m \in Nodes : n <= m
    /\ destination \in Nodes
    /\ sp_queue = Queue_init(<<source>>)
    /\ visited = {source}
    /\ previous = <<>>
    /\ sp_pc = "while"
    /\ node = 0
    /\ neighbors = {}
    /\ result = None
    /\ NoTraversal
    /\ NoProcesses
    /\ NoContainer
    /\ NoPool

\* while queue: node = queue.dequeue(); neighbors = ...
SPDequeue ==
    /\ sp_pc = "while"
    /\ IterableMixin_len(sp_queue) > 0
    /\ LET r == Queue_dequeue(sp_queue)
       IN  /\ node' = r.ret
           /\ sp_queue' = r.elements
           /\ neighbors' = get_neighbors_of_node(network, r.ret)
    /\ sp_pc' = "for"
    /\ UNCHANGED <<network, source, destination, visited, previous, result>>
    /\ UNCHANGED travVars
    /\ UNCHANGED <<containerVars, poolVars, procVars>>

\* One round of "for neighbor in neighbors".
SPNeighbor ==
    /\ sp_pc = "for"
    /\ \E neighbor \in neighbors :
          /\ neighbors' = neighbors \ {neighbor}
          /\ IF neighbor \notin visited
             THEN /\ visited' = visited \cup {neighbor}
                  /\ sp_queue' = Queue_enqueue(sp_queue, neighbor)
                  /\ previous' = (neighbor :> node) @@ previous
                  /\ IF neighbor = destination
                     THEN /\ result' = retrace(previous', source, destination)
                          /\ sp_pc' = "return"
                     ELSE UNCHANGED <<result, sp_pc>>
             ELSE UNCHANGED <<visited, sp_queue, previous, result, sp_pc>>
    /\ UNCHANGED <<network, source, destination, node>>
    /\ UNCHANGED travVars
    /\ UNCHANGED <<containerVars, poolVars, procVars>>

\* The neighbors are exhausted: back to the test of the while loop.
SPForEnd ==
    /\ sp_pc = "for"
    /\ neighbors = {}
    /\ sp_pc' = "while"
    /\ UNCHANGED <<network, source, destination, sp_queue, visited, previous,
                   node, neighbors, result>>
    /\ UNCHANGED travVars
    /\ UNCHANGED <<containerVars, poolVars, procVars>>

\* The queue is empty: return [].
SPReturnEmpty ==
    /\ sp_pc = "while"
    /\ IterableMixin_len(sp_queue) = 0
    /\ result' = List(<<>>)
    /\ sp_pc' = "return"
    /\ UNCHANGED <<network, source, destination, sp_queue, visited, previous,
                   node, neighbors>>
    /\ UNCHANGED travVars
    /\ UNCHANGED <<containerVars, poolVars, procVars>>

NextShortestPath == (SPDequeue \/ SPNeighbor \/ SPForEnd \/ SPReturnEmpty)

SpecShortestPath == InitShortestPath /\ [][NextShortestPath]_vars

(***************************************************************************)
(* traverse_network_bfs(network, root) and traverse_network_dfs(network,   *)
(* root): generators, run here until they are exhausted, one after the     *)
(* other on the same graph, which keeps the order network.neighbors(node)  *)
(* yields the neighbors of each node in.                                   *)
(***************************************************************************)
Cities == 1..NumCities

\* The undirected graphs over Cities of at most MaxRoads edges.
RoadNetworks ==
    {[n \in Cities |-> {m \in Cities : {n, m} \in edges}] :
        edges \in {es \in SUBSET {e \in SUBSET Cities : Cardinality(e) = 2} :
                      Cardinality(es) <= MaxRoads}}

\* The orders that the members of S can come in.
Orders(S) ==
    {o \in [1..Cardinality(S) -> S] : \A i, j \in DOMAIN o : o[i] = o[j] => i = j}

\* The orders that the neighbors of the nodes ns of the graph net can come in.
RECURSIVE NeighborOrders(_, _)
NeighborOrders(net, ns) ==
    IF ns = {} THEN {<<>>}
    ELSE LET n == CHOOSE x \in ns : TRUE
         IN  {(n :> o) @@ f : o \in Orders(get_neighbors_of_node(net, n)),
                              f \in NeighborOrders(net, ns \ {n})}

\* iter(get_neighbors_of_node(network, node))
iter_neighbors(order, n) == order[n]

\* Every graph over Cities is drawn with every order of the neighbors, and
\* renaming the nodes turns a traversal from any root into one from the first
\* node.  traverse_network_bfs is called twice, then traverse_network_dfs.
InitTraverse ==
    /\ tr_network \in RoadNetworks
    /\ neighbor_order \in NeighborOrders(tr_network, Cities)
    /\ root = CHOOSE n \in Cities : \A m \in Cities : n <= m
    /\ calls = <<"bfs", "bfs", "dfs">>
    /\ running = "none"
    /\ tr_pc = "off"
    /\ tr_q = <<>>
    /\ seen = {}
    /\ iterating = <<>>
    /\ yielded = <<>>
    /\ outputs = <<>>
    /\ NoPath
    /\ NoContainer
    /\ NoPool
    /\ NoProcesses

\* q = Queue(root); visited = {root}
BfsCall ==
    /\ running = "none"
    /\ calls # <<>> /\ Head(calls) = "bfs"
    /\ calls' = Tail(calls)
    /\ running' = "bfs"
    /\ tr_q' = Queue_init(<<root>>)
    /\ seen' = {root}
    /\ yielded' = <<>>
    /\ tr_pc' = "while"
    /\ UNCHANGED <<tr_network, neighbor_order, root, iterating, outputs>>
    /\ UNCHANGED <<containerVars, spVars, poolVars, procVars>>

BfsDequeue_Newest ==
    /\ running = "bfs"
    /\ tr_pc = "while"
    /\ IterableMixin_len(tr_q) > 0
    /\ LET r == Stack_dequeue(tr_q)
       IN  /\ tr_q' = r.elements
           /\ yielded' = Append(yielded, r.ret)
           /\ iterating' = iter_neighbors(neighbor_order, r.ret)
    /\ tr_pc' = "for"
    /\ UNCHANGED <<tr_network, neighbor_order, root, calls, running, seen,
                   outputs>>
    /\ UNCHANGED <<containerVars, spVars, poolVars, procVars>>

\* while q: yield (node := q.dequeue()); neighbors = ...
BfsDequeue ==
    /\ running = "bfs"
    /\ tr_pc = "while"
    /\ IterableMixin_len(tr_q) > 0
    /\ LET r == Queue_dequeue(tr_q)
       IN  /\ tr_q' = r.elements
           /\ yielded' = Append(yielded, r.ret)
           /\ iterating' = iter_neighbors(neighbor_order, r.ret)
    /\ tr_pc' = "for"
    /\ UNCHANGED <<tr_network, neighbor_order, root, calls, running, seen,
                   outputs>>
    /\ UNCHANGED <<containerVars, spVars, poolVars, procVars>>

BfsNeighbor_Unmarked ==
    /\ running = "bfs"
    /\ tr_pc = "for"
    /\ iterating # <<>>
    /\ iterating' = Tail(iterating)
    /\ IF Head(iterating) \notin seen
       THEN tr_q' = Queue_enqueue(tr_q, Head(iterating))
       ELSE UNCHANGED tr_q
    /\ UNCHANGED <<tr_network, neighbor_order, root, calls, running, tr_pc,
                   seen, yielded, outputs>>
    /\ UNCHANGED <<containerVars, spVars, poolVars, procVars>>

\* One round of "for neighbor in neighbors".
BfsNeighbor ==
    /\ running = "bfs"
    /\ tr_pc = "for"
    /\ iterating # <<>>
    /\ iterating' = Tail(iterating)
    /\ IF Head(iterating) \notin seen
       THEN /\ seen' = seen \cup {Head(iterating)}
            /\ tr_q' = Queue_enqueue(tr_q, Head(iterating))
       ELSE UNCHANGED <<seen, tr_q>>
    /\ UNCHANGED <<tr_network, neighbor_order, root, calls, running, tr_pc,
                   yielded, outputs>>
    /\ UNCHANGED <<containerVars, spVars, poolVars, procVars>>

\* The neighbors are exhausted: back to the test of the while loop.
BfsForEnd ==
    /\ running = "bfs"
    /\ tr_pc = "for"
    /\ iterating = <<>>
    /\ tr_pc' = "while"
    /\ UNCHANGED <<tr_network, neighbor_order, root, calls, running, tr_q, seen,
                   iterating, yielded, outputs>>
    /\ UNCHANGED <<containerVars, spVars, poolVars, procVars>>

\* The queue is empty: the generator is exhausted.
BfsReturn ==
    /\ running = "bfs"
    /\ tr_pc = "while"
    /\ IterableMixin_len(tr_q) = 0
    /\ outputs' = Append(outputs, yielded)
    /\ running' = "none"
    /\ tr_pc' = "off"
    /\ UNCHANGED <<tr_network, neighbor_order, root, calls, tr_q, seen,
                   iterating, yielded>>
    /\ UNCHANGED <<containerVars, spVars, poolVars, procVars>>

\* next(neighbors) on the iterator of the pair on top of the stack: the
\* iterator is advanced where it is, in the pair that the stack holds.
Advance(els) == [els EXCEPT ![Len(els)][2] = Tail(@)]

DfsCall_RootUnseen ==
    /\ running = "none"
    /\ calls # <<>> /\ Head(calls) = "dfs"
    /\ calls' = Tail(calls)
    /\ running' = "dfs"
    /\ tr_q' = Queue_init(<<<<root, iter_neighbors(neighbor_order, root)>>>>)
    /\ seen' = {}
    /\ yielded' = <<root>>
    /\ tr_pc' = "while"
    /\ UNCHANGED <<tr_network, neighbor_order, root, iterating, outputs>>
    /\ UNCHANGED <<containerVars, spVars, poolVars, procVars>>

\* q = Stack((root, iter(...))); visited = {root}; yield root
DfsCall ==
    /\ running = "none"
    /\ calls # <<>> /\ Head(calls) = "dfs"
    /\ calls' = Tail(calls)
    /\ running' = "dfs"
    /\ tr_q' = Queue_init(<<<<root, iter_neighbors(neighbor_order, root)>>>>)
    /\ seen' = {root}
    /\ yielded' = <<root>>
    /\ tr_pc' = "while"
    /\ UNCHANGED <<tr_network, neighbor_order, root, iterating, outputs>>
    /\ UNCHANGED <<containerVars, spVars, poolVars, procVars>>

\* while q: _, neighbors = q.peak(); nxt = next(neighbors); if nxt not in
\* visited: yield nxt; visited.add(nxt); q.enqueue((nxt, iter(...)))
DfsNext ==
    /\ running = "dfs"
    /\ tr_pc = "while"
    /\ IterableMixin_len(tr_q) > 0
    /\ Stack_peak(tr_q)[2] # <<>>
    /\ LET nxt == Head(Stack_peak(tr_q)[2])
       IN  IF nxt \notin seen
           THEN /\ yielded' = Append(yielded, nxt)
                /\ seen' = seen \cup {nxt}
                /\ tr_q' = Queue_enqueue(Advance(tr_q),
                               <<nxt, iter_neighbors(neighbor_order, nxt)>>)
           ELSE /\ tr_q' = Advance(tr_q)
                /\ UNCHANGED <<yielded, seen>>
    /\ UNCHANGED <<tr_network, neighbor_order, root, calls, running, tr_pc,
                   iterating, outputs>>
    /\ UNCHANGED <<containerVars, spVars, poolVars, procVars>>

DfsPop_Any ==
    /\ running = "dfs"
    /\ tr_pc = "while"
    /\ IterableMixin_len(tr_q) > 0
    /\ tr_q' = Stack_dequeue(tr_q).elements
    /\ UNCHANGED <<tr_network, neighbor_order, root, calls, running, tr_pc,
                   seen, iterating, yielded, outputs>>
    /\ UNCHANGED <<containerVars, spVars, poolVars, procVars>>

\* next(neighbors) raised StopIteration: q.dequeue()
DfsPop ==
    /\ running = "dfs"
    /\ tr_pc = "while"
    /\ IterableMixin_len(tr_q) > 0
    /\ Stack_peak(tr_q)[2] = <<>>
    /\ tr_q' = Stack_dequeue(tr_q).elements
    /\ UNCHANGED <<tr_network, neighbor_order, root, calls, running, tr_pc,
                   seen, iterating, yielded, outputs>>
    /\ UNCHANGED <<containerVars, spVars, poolVars, procVars>>

\* The stack is empty: the generator is exhausted.
DfsReturn ==
    /\ running = "dfs"
    /\ tr_pc = "while"
    /\ IterableMixin_len(tr_q) = 0
    /\ outputs' = Append(outputs, yielded)
    /\ running' = "none"
    /\ tr_pc' = "off"
    /\ UNCHANGED <<tr_network, neighbor_order, root, calls, tr_q, seen,
                   iterating, yielded>>
    /\ UNCHANGED <<containerVars, spVars, poolVars, procVars>>

NextTraverse ==
    \/ BfsCall
    \/ BfsDequeue
    \/ BfsNeighbor
    \/ BfsForEnd
    \/ BfsReturn
    \/ DfsCall
    \/ DfsNext
    \/ DfsPop
    \/ DfsReturn

\* Whoever consumes a generator goes on until it is exhausted.
SpecTraverse ==
    InitTraverse /\ [][NextTraverse]_vars /\ WF_vars(NextTraverse)

(***************************************************************************)
(* The crawler of async_queues.py: main and num_workers worker tasks on    *)
(* one asyncio.PriorityQueue of Jobs.  The tasks are interleaved statement *)
(* by statement, which covers every schedule of the event loop.  What      *)
(* fetch_html does is the environment's choice: it returns a page (the     *)
(* links parse_links finds in it, in order), returns nothing, or raises    *)
(* aiohttp.ClientError.                                                    *)
(***************************************************************************)
Workers == 1..num_workers

\* The sequences of at most n members of S.
RECURSIVE SeqsUpTo(_, _)
SeqsUpTo(S, n) ==
    IF n = 0 THEN {<<>>}
    ELSE LET shorter == SeqsUpTo(S, n - 1)
         IN  shorter \cup {Append(q, x) : q \in shorter, x \in S}

\* The number of entries a Counter counts in all.
RECURSIVE Total(_)
Total(c) ==
    IF DOMAIN c = {} THEN 0
    ELSE LET key == CHOOSE k \in DOMAIN c : TRUE
         IN  c[key] + Total([k \in DOMAIN c \ {key} |-> c[k]])

\* The links that parse_links has yet to yield to the workers ws.
RECURSIVE Pending(_)
Pending(ws) ==
    IF ws = {} THEN 0
    ELSE LET w == CHOOSE x \in ws : TRUE
         IN  Len(found[w]) + Pending(ws \ {w})

\* What parse_links may yield for the page fetched next, in order: the crawl
\* meets MaxJobs Jobs at most.
Pages == SeqsUpTo(Urls, MaxJobs - Total(puts) - Pending(Workers))

\* class Job(NamedTuple): url, depth = 1.
DefaultDepth == 1

Job(url, d) == [url |-> url, depth |-> d]

Counter_add_Lost(c, key) == (key :> 1) @@ c

\* Counter: c[key] += 1.
Counter_add(c, key) ==
    IF key \in DOMAIN c THEN [c EXCEPT ![key] = @ + 1] ELSE (key :> 1) @@ c

\* asyncio.PriorityQueue._put and ._get.
PriorityQueue_put(q, item) == heappush("Job", q, item)

PriorityQueue_get(q) == heappop("Job", q)

\* A task that has ended, by an exception or a cancellation.
Ended(w) == pc[w] \in {"cancelled", "failed"}

except_clause_Nothing(e) == FALSE

\* except aiohttp.ClientError: whether the clause handles the exception e.
except_clause(e) == e = "ClientError"

return_exceptions_False == FALSE

\* asyncio.gather(*tasks, return_exceptions=True)
return_exceptions == TRUE

\* What gather gives main once every task has ended with `outcomes`: the
\* first exception is raised in main unless exceptions are returned.
gather(outcomes, returning) ==
    IF ~returning /\ \E w \in DOMAIN outcomes : outcomes[w] # "none"
    THEN [raised |-> TRUE, results |-> <<>>]
    ELSE [raised |-> FALSE, results |-> outcomes]

Init ==
    /\ max_depth \in 1..MaxJobs
    /\ num_workers \in 1..MaxWorkers
    /\ main_pc = "put"
    /\ queue = <<>>
    /\ unfinished_tasks = 0
    /\ finished = TRUE
    /\ join_waiter = "none"
    /\ links = <<>>
    /\ pc = [w \in Workers |-> "get"]
    /\ depth = [w \in Workers |-> 0]
    /\ found = [w \in Workers |-> <<>>]
    /\ exc = [w \in Workers |-> "none"]
    /\ cancelling = {}
    /\ gathered = <<>>
    /\ holding = [w \in Workers |-> 0]
    /\ puts = <<>>
    /\ failures = 0
    /\ NoContainer
    /\ NoPath
    /\ NoTraversal
    /\ NoProcesses

\* await queue.put(Job(args.url))
MainPut ==
    /\ main_pc = "put"
    /\ \E url \in Urls :
          /\ queue' = PriorityQueue_put(queue, Job(url, DefaultDepth))
          /\ puts' = Counter_add(puts, url)
    /\ unfinished_tasks' = unfinished_tasks + 1
    /\ finished' = FALSE
    /\ main_pc' = "join"
    /\ UNCHANGED <<max_depth, num_workers, join_waiter, links, pc, depth, found,
                   exc, cancelling, gathered, holding, failures>>
    /\ UNCHANGED <<containerVars, pathVars, procVars>>

MainJoin_NoWait ==
    /\ main_pc = "join"
    /\ main_pc' = "cancel"
    /\ UNCHANGED <<max_depth, num_workers, queue, unfinished_tasks, finished,
                   join_waiter, links, pc, depth, found, exc, cancelling,
                   gathered, holding, puts, failures>>
    /\ UNCHANGED <<containerVars, pathVars, procVars>>

\* await queue.join(): wait for the Event unless nothing is unfinished.
MainJoin ==
    /\ main_pc = "join"
    /\ IF unfinished_tasks > 0
       THEN /\ main_pc' = "wait"
            /\ join_waiter' = IF finished THEN "done" ELSE "pending"
       ELSE /\ main_pc' = "cancel"
            /\ UNCHANGED join_waiter
    /\ UNCHANGED <<max_depth, num_workers, queue, unfinished_tasks, finished,
                   links, pc, depth, found, exc, cancelling, gathered, holding,
                   puts, failures>>
    /\ UNCHANGED <<containerVars, pathVars, procVars>>

\* The Event was set: queue.join() returns.
MainJoinReturn ==
    /\ main_pc = "wait"
    /\ join_waiter = "done"
    /\ join_waiter' = "none"
    /\ main_pc' = "cancel"
    /\ UNCHANGED <<max_depth, num_workers, queue, unfinished_tasks, finished,
                   links, pc, depth, found, exc, cancelling, gathered, holding,
                   puts, failures>>
    /\ UNCHANGED <<containerVars, pathVars, procVars>>

\* for task in tasks: task.cancel()
MainCancel ==
    /\ main_pc = "cancel"
    /\ cancelling' = {w \in Workers : ~Ended(w)}
    /\ main_pc' = "gather"
    /\ UNCHANGED <<max_depth, num_workers, queue, unfinished_tasks, finished,
                   join_waiter, links, pc, depth, found, exc, gathered, holding,
                   puts, failures>>
    /\ UNCHANGED <<containerVars, pathVars, procVars>>

\* await asyncio.gather(*tasks, return_exceptions=True)
MainGather ==
    /\ main_pc = "gather"
    /\ \A w \in Workers : Ended(w)
    /\ LET r == gather(exc, return_exceptions)
       IN  /\ gathered' = r.results
           /\ main_pc' = IF r.raised THEN "raised" ELSE "display"
    /\ UNCHANGED <<max_depth, num_workers, queue, unfinished_tasks, finished,
                   join_waiter, links, pc, depth, found, exc, cancelling, holding,
                   puts, failures>>
    /\ UNCHANGED <<containerVars, pathVars, procVars>>

\* display(links), then the finally clause of main.
MainDisplay ==
    /\ main_pc = "display"
    /\ main_pc' = "done"
    /\ UNCHANGED <<max_depth, num_workers, queue, unfinished_tasks, finished,
                   join_waiter, links, pc, depth, found, exc, cancelling,
                   gathered, holding, puts, failures>>
    /\ UNCHANGED <<containerVars, pathVars, procVars>>

WorkerGet_Inclusive(w) ==
    /\ pc[w] = "get"
    /\ w \notin cancelling
    /\ Len(queue) > 0
    /\ LET r == PriorityQueue_get(queue)
       IN  /\ queue' = r.heap
           /\ depth' = [depth EXCEPT ![w] = r.item.depth]
           /\ links' = Counter_add(links, r.item.url)
           /\ pc' = [pc EXCEPT ![w] = IF r.item.depth <= max_depth
                                      THEN "fetch" ELSE "finally"]
    /\ holding' = [holding EXCEPT ![w] = @ + 1]
    /\ UNCHANGED <<max_depth, num_workers, main_pc, unfinished_tasks, finished,
                   join_waiter, found, exc, cancelling, gathered, puts,
                   failures>>
    /\ UNCHANGED <<containerVars, pathVars, procVars>>

\* url, depth = await queue.get(); links[url] += 1; if depth < max_depth.
\* The url itself is left out of the worker's state: what fetch_html does
\* with it is the environment's choice.
WorkerGet(w) ==
    /\ pc[w] = "get"
    /\ w \notin cancelling
    /\ Len(queue) > 0
    /\ LET r == PriorityQueue_get(queue)
       IN  /\ queue' = r.heap
           /\ depth' = [depth EXCEPT ![w] = r.item.depth]
           /\ links' = Counter_add(links, r.item.url)
           /\ pc' = [pc EXCEPT ![w] = IF r.item.depth < max_depth
                                      THEN "fetch" ELSE "finally"]
    /\ holding' = [holding EXCEPT ![w] = @ + 1]
    /\ UNCHANGED <<max_depth, num_workers, main_pc, unfinished_tasks, finished,
                   join_waiter, found, exc, cancelling, gathered, puts,
                   failures>>
    /\ UNCHANGED <<containerVars, pathVars, procVars>>

\* fetch_html returned a page; parse_links will yield its links.
WorkerFetchHtml(w) ==
    /\ pc[w] = "fetch"
    /\ \E page \in Pages : found' = [found EXCEPT ![w] = page]
    /\ pc' = [pc EXCEPT ![w] = "put"]
    /\ UNCHANGED <<max_depth, num_workers, main_pc, queue, unfinished_tasks,
                   finished, join_waiter, links, depth, exc, cancelling,
                   gathered, holding, puts, failures>>
    /\ UNCHANGED <<containerVars, pathVars, procVars>>

WorkerFetchNone_Signals(w) ==
    /\ pc[w] = "fetch"
    /\ pc' = [pc EXCEPT ![w] = "finally"]
    /\ unfinished_tasks' = unfinished_tasks - 1
    /\ finished' = (finished \/ unfinished_tasks' = 0)
    /\ join_waiter' = IF unfinished_tasks' = 0 /\ join_waiter = "pending"
                      THEN "done" ELSE join_waiter
    /\ UNCHANGED <<max_depth, num_workers, main_pc, queue, links, depth, found,
                   exc, cancelling, gathered, holding, puts, failures>>
    /\ UNCHANGED <<containerVars, pathVars, procVars>>

\* fetch_html returned None (or an empty text).
WorkerFetchNone(w) ==
    /\ pc[w] = "fetch"
    /\ pc' = [pc EXCEPT ![w] = "finally"]
    /\ UNCHANGED <<max_depth, num_workers, main_pc, queue, unfinished_tasks,
                   finished, join_waiter, links, depth, found, exc, cancelling,
                   gathered, holding, puts, failures>>
    /\ UNCHANGED <<containerVars, pathVars, procVars>>

WorkerFetchRaises_NoFinally(w) ==
    /\ pc[w] = "fetch"
    /\ failures' = failures + 1
    /\ depth' = [depth EXCEPT ![w] = 0]
    /\ pc' = [pc EXCEPT ![w] = "get"]
    /\ UNCHANGED <<max_depth, num_workers, main_pc, queue, unfinished_tasks,
                   finished, join_waiter, links, found, exc, cancelling,
                   gathered, holding, puts>>
    /\ UNCHANGED <<containerVars, pathVars, procVars>>

\* fetch_html raised aiohttp.ClientError; the except clause handles it and
\* prints the "failed at" line; the finally clause comes next either way.
WorkerFetchRaises(w) ==
    /\ pc[w] = "fetch"
    /\ IF except_clause("ClientError")
       THEN /\ failures' = failures + 1
            /\ UNCHANGED exc
       ELSE /\ exc' = [exc EXCEPT ![w] = "ClientError"]
            /\ UNCHANGED failures
    /\ pc' = [pc EXCEPT ![w] = "finally"]
    /\ UNCHANGED <<max_depth, num_workers, main_pc, queue, unfinished_tasks,
                   finished, join_waiter, links, depth, found, cancelling,
                   gathered, holding, puts>>
    /\ UNCHANGED <<containerVars, pathVars, procVars>>

WorkerPut_Flat(w) ==
    /\ pc[w] = "put"
    /\ found[w] # <<>>
    /\ queue' = PriorityQueue_put(queue, Job(Head(found[w]), depth[w]))
    /\ puts' = Counter_add(puts, Head(found[w]))
    /\ unfinished_tasks' = unfinished_tasks + 1
    /\ finished' = FALSE
    /\ found' = [found EXCEPT ![w] = Tail(@)]
    /\ UNCHANGED <<max_depth, num_workers, main_pc, join_waiter, links, pc,
                   depth, exc, cancelling, gathered, holding, failures>>
    /\ UNCHANGED <<containerVars, pathVars, procVars>>

\* await queue.put(Job(link_url, depth + 1)), for the next link.
WorkerPut(w) ==
    /\ pc[w] = "put"
    /\ found[w] # <<>>
    /\ queue' = PriorityQueue_put(queue, Job(Head(found[w]), depth[w] + 1))
    /\ puts' = Counter_add(puts, Head(found[w]))
    /\ unfinished_tasks' = unfinished_tasks + 1
    /\ finished' = FALSE
    /\ found' = [found EXCEPT ![w] = Tail(@)]
    /\ UNCHANGED <<max_depth, num_workers, main_pc, join_waiter, links, pc,
                   depth, exc, cancelling, gathered, holding, failures>>
    /\ UNCHANGED <<containerVars, pathVars, procVars>>

\* parse_links is exhausted: the for loop ends.
WorkerPutDone(w) ==
    /\ pc[w] = "put"
    /\ found[w] = <<>>
    /\ pc' = [pc EXCEPT ![w] = "finally"]
    /\ UNCHANGED <<max_depth, num_workers, main_pc, queue, unfinished_tasks,
                   finished, join_waiter, links, depth, found, exc, cancelling,
                   gathered, holding, puts, failures>>
    /\ UNCHANGED <<containerVars, pathVars, procVars>>

\* finally: queue.task_done(), which raises ValueError when called too many
\* times; then the next round of the loop, unless an exception that was not
\* handled ends the task.
WorkerTaskDone(w) ==
    /\ pc[w] = "finally"
    /\ IF unfinished_tasks <= 0
       THEN /\ exc' = [exc EXCEPT ![w] = "ValueError"]
            /\ pc' = [pc EXCEPT ![w] = "failed"]
            /\ UNCHANGED <<unfinished_tasks, finished, join_waiter, holding>>
       ELSE /\ unfinished_tasks' = unfinished_tasks - 1
            /\ finished' = (finished \/ unfinished_tasks' = 0)
            /\ join_waiter' = IF unfinished_tasks' = 0 /\ join_waiter = "pending"
                              THEN "done" ELSE join_waiter
            /\ holding' = [holding EXCEPT ![w] = @ - 1]
            /\ pc' = [pc EXCEPT ![w] = IF exc[w] = "none" THEN "get" ELSE "failed"]
            /\ UNCHANGED exc
    /\ depth' = [depth EXCEPT ![w] = 0]
    /\ UNCHANGED <<max_depth, num_workers, main_pc, queue, links, found,
                   cancelling, gathered, puts, failures>>
    /\ UNCHANGED <<containerVars, pathVars, procVars>>

\* CancelledError is raised at await queue.get(), outside the try statement.
WorkerCancelled(w) ==
    /\ pc[w] = "get"
    /\ w \in cancelling
    /\ cancelling' = cancelling \ {w}
    /\ exc' = [exc EXCEPT ![w] = "CancelledError"]
    /\ pc' = [pc EXCEPT ![w] = "cancelled"]
    /\ UNCHANGED <<max_depth, num_workers, main_pc, queue, unfinished_tasks,
                   finished, join_waiter, links, depth, found, gathered, holding,
                   puts, failures>>
    /\ UNCHANGED <<containerVars, pathVars, procVars>>

Main ==
    \/ MainPut
    \/ MainJoin
    \/ MainJoinReturn
    \/ MainCancel
    \/ MainGather
    \/ MainDisplay

Worker(w) ==
    \/ WorkerGet(w)
    \/ WorkerFetchHtml(w)
    \/ WorkerFetchNone(w)
    \/ WorkerFetchRaises(w)
    \/ WorkerPut(w)
    \/ WorkerPutDone(w)
    \/ WorkerTaskDone(w)
    \/ WorkerCancelled(w)

Next ==
    \/ MainPut
    \/ MainJoin
    \/ MainJoinReturn
    \/ MainCancel
    \/ MainGather
    \/ MainDisplay
    \/ \E w \in Workers : WorkerGet(w)
    \/ \E w \in Workers : WorkerFetchHtml(w)
    \/ \E w \in Workers : WorkerFetchNone(w)
    \/ \E w \in Workers : WorkerFetchRaises(w)
    \/ \E w \in Workers : WorkerPut(w)
    \/ \E w \in Workers : WorkerPutDone(w)
    \/ \E w \in Workers : WorkerTaskDone(w)
    \/ \E w \in Workers : WorkerCancelled(w)

Spec == Init /\ [][Next]_vars

\* The event loop does not stop while a task is ready or a fetch is under way.
Fairness == WF_vars(Next)

FairSpec == Spec /\ Fairness

(***************************************************************************)
(* multiprocess_queue: main puts Jobs and then the poison pill on          *)
(* queue_in and polls queue_out while a worker is alive; each Worker takes *)
(* Jobs from queue_in until one of them yields a plaintext, which it puts  *)
(* on queue_out, or until it takes the poison pill, which it puts back.    *)
(* A Job is known by its start_index and by what calling it returns; a     *)
(* str is a record with the text as its value.                             *)
(***************************************************************************)
POISON_PILL == None

Str(text) == [type |-> "str", value |-> text]

HashJob(i, found_text) == [type |-> "Job", start_index |-> i, returns |-> found_text]

\* Job.__call__(hash_value): the text of its range whose md5 is hash_value,
\* or None.
Job_call(j) == j.returns

\* The truth value of a str or of None.
Truthy(v) == v # None /\ v.value # ""

Procs == 1..num_procs

\* Process.is_alive(): the process was started and has not ended.
is_alive(w) == run_pc[w] # "ended"

\* The Jobs main puts, in order: n chunks, of which at most one holds the text
\* that hashes to hash_value.
JobLists ==
    {[i \in 1..n |-> HashJob(i, IF i = hit THEN Str("a") ELSE None)] :
        n \in 1..MaxChunks, hit \in 0..MaxChunks}

\* The workers are started; main is about to put the Jobs.
InitProcesses ==
    /\ num_procs \in 1..MaxProcs
    /\ mp_pc = "put_jobs"
    /\ todo \in JobLists
    /\ queue_in = <<>>
    /\ queue_out = <<>>
    /\ run_pc = [w \in Procs |-> "get"]
    /\ job = [w \in Procs |-> None]
    /\ printed = <<>>
    /\ NoContainer
    /\ NoPath
    /\ NoTraversal
    /\ NoPool

\* queue_in.put(Job(combinations, *indices))
MainPutJob ==
    /\ mp_pc = "put_jobs"
    /\ todo # <<>>
    /\ queue_in' = Append(queue_in, Head(todo))
    /\ todo' = Tail(todo)
    /\ UNCHANGED <<num_procs, mp_pc, queue_out, run_pc, job, printed>>
    /\ UNCHANGED <<containerVars, pathVars, poolVars>>

\* queue_in.put(POISON_PILL)
MainPutPill ==
    /\ mp_pc = "put_jobs"
    /\ todo = <<>>
    /\ queue_in' = Append(queue_in, POISON_PILL)
    /\ mp_pc' = "while"
    /\ UNCHANGED <<num_procs, todo, queue_out, run_pc, job, printed>>
    /\ UNCHANGED <<containerVars, pathVars, poolVars>>

\* while any(worker.is_alive() for worker in workers): ... else: print(...)
MainWhile ==
    /\ mp_pc = "while"
    /\ IF \E w \in Procs : is_alive(w)
       THEN /\ mp_pc' = "poll"
            /\ UNCHANGED printed
       ELSE /\ printed' = Append(printed, "Unable to find a solution")
            /\ mp_pc' = "done"
    /\ UNCHANGED <<num_procs, todo, queue_in, queue_out, run_pc, job>>
    /\ UNCHANGED <<containerVars, pathVars, poolVars>>

\* solution = queue_out.get(timeout=0.1) returned; if solution: print, break.
MainGet ==
    /\ mp_pc = "poll"
    /\ queue_out # <<>>
    /\ LET solution == Head(queue_out)
       IN  IF Truthy(solution)
           THEN /\ printed' = Append(printed, solution.value)
                /\ mp_pc' = "done"
           ELSE /\ mp_pc' = "while"
                /\ UNCHANGED printed
    /\ queue_out' = Tail(queue_out)
    /\ UNCHANGED <<num_procs, todo, queue_in, run_pc, job>>
    /\ UNCHANGED <<containerVars, pathVars, poolVars>>

\* queue_out.get(timeout=0.1) raised queue.Empty: nothing came in time.
MainEmpty ==
    /\ mp_pc = "poll"
    /\ queue_out = <<>>
    /\ mp_pc' = "while"
    /\ UNCHANGED <<num_procs, todo, queue_in, queue_out, run_pc, job, printed>>
    /\ UNCHANGED <<containerVars, pathVars, poolVars>>

\* job = self.queue_in.get(); if job is POISON_PILL
RunGet(w) ==
    /\ run_pc[w] = "get"
    /\ queue_in # <<>>
    /\ job' = [job EXCEPT ![w] = Head(queue_in)]
    /\ queue_in' = Tail(queue_in)
    /\ run_pc' = [run_pc EXCEPT ![w] = IF Head(queue_in) = POISON_PILL
                                       THEN "pill" ELSE "call"]
    /\ UNCHANGED <<num_procs, mp_pc, todo, queue_out, printed>>
    /\ UNCHANGED <<containerVars, pathVars, poolVars>>

\* self.queue_in.put(POISON_PILL); break
RunPill(w) ==
    /\ run_pc[w] = "pill"
    /\ queue_in' = Append(queue_in, POISON_PILL)
    /\ run_pc' = [run_pc EXCEPT ![w] = "return"]
    /\ UNCHANGED <<num_procs, mp_pc, todo, queue_out, job, printed>>
    /\ UNCHANGED <<containerVars, pathVars, poolVars>>

\* if plaintext := job(self.hash_value): self.queue_out.put(plaintext); break
RunCall(w) ==
    /\ run_pc[w] = "call"
    /\ LET plaintext == Job_call(job[w])
       IN  IF Truthy(plaintext)
           THEN /\ queue_out' = Append(queue_out, plaintext)
                /\ run_pc' = [run_pc EXCEPT ![w] = "return"]
           ELSE /\ run_pc' = [run_pc EXCEPT ![w] = "get"]
                /\ UNCHANGED queue_out
    /\ UNCHANGED <<num_procs, mp_pc, todo, queue_in, job, printed>>
    /\ UNCHANGED <<containerVars, pathVars, poolVars>>

\* run() has returned: the process ends, and is_alive() is False from now on.
RunReturn(w) ==
    /\ run_pc[w] = "return"
    /\ run_pc' = [run_pc EXCEPT ![w] = "ended"]
    /\ UNCHANGED <<num_procs, mp_pc, todo, queue_in, queue_out, job, printed>>
    /\ UNCHANGED <<containerVars, pathVars, poolVars>>

NextProcesses ==
    \/ MainPutJob
    \/ MainPutPill
    \/ MainWhile
    \/ MainGet
    \/ MainEmpty
    \/ \E w \in Procs : RunGet(w)
    \/ \E w \in Procs : RunPill(w)
    \/ \E w \in Procs : RunCall(w)
    \/ \E w \in Procs : RunReturn(w)

SpecProcesses == InitProcesses /\ [][NextProcesses]_vars

(***************************************************************************)
(* The frontier of the crawler on its own: an asyncio.PriorityQueue of     *)
(* Jobs under any sequence of puts and gets.                               *)
(***************************************************************************)
\* The Jobs that are put: the seed and the links of the seed's page.
Jobs == {Job(url, d) : url \in Urls, d \in {DefaultDepth, DefaultDepth + 1}}

InitFrontier ==
    /\ elements = <<>>
    /\ counter = 0
    /\ elements_by_value = <<>>
    /\ log = <<>>
    /\ NoPath
    /\ NoTraversal
    /\ NoProcesses
    /\ NoPool

\* await queue.put(job); the log keeps the key the heap orders the Job by,
\* negated: Job.__lt__ puts the shorter url first.
FrontierPut ==
    /\ UNCHANGED <<pathVars, poolVars, procVars>>
    /\ Len(log) < MaxOps
    /\ \E j \in Jobs :
          /\ elements' = PriorityQueue_put(elements, j)
          /\ log' = Append(log, [op |-> "enqueue", priority |-> 0 - Len(j.url),
                                 value |-> j])
    /\ UNCHANGED <<counter, elements_by_value>>

\* await queue.get(), on a queue that is not empty.
FrontierGet ==
    /\ UNCHANGED <<pathVars, poolVars, procVars>>
    /\ Len(log) < MaxOps
    /\ Len(elements) > 0
    /\ LET r == PriorityQueue_get(elements)
       IN  /\ elements' = r.heap
           /\ log' = Append(log, [op |-> "dequeue", value |-> r.item])
    /\ UNCHANGED <<counter, elements_by_value>>

NextFrontier == (FrontierPut \/ FrontierGet)

SpecFrontier == InitFrontier /\ [][NextFrontier]_vars

NextQueue == (Enqueue \/ QueueDequeue)

SpecQueue == InitDeque /\ [][NextQueue]_vars

NextStack == (Enqueue \/ StackDequeue)

SpecStack == InitDeque /\ [][NextStack]_vars

NextPriorityQueue == (PQEnqueue \/ PQDequeue)

SpecPriorityQueue == InitPriorityQueue /\ [][NextPriorityQueue]_vars

NextMutableMinHeap == (HeapSetitem \/ HeapDequeue)

SpecMutableMinHeap == InitMutableMinHeap /\ [][NextMutableMinHeap]_vars

(***************************************************************************)
(* A client of one container of any of the four classes.  log[1] is the    *)
(* call of the constructor; after it log keeps the two most recent calls,  *)
(* each with what it returned or raised.  A call that raises leaves every  *)
(* attribute as it was.                                                    *)
(***************************************************************************)
Classes == {"Queue", "Stack", "PriorityQueue", "MutableMinHeap"}

ClassOf == log[1].cls

Returned(op, v) == [op |-> op, raised |-> "", value |-> v]

Raised(op, e) == [op |-> op, raised |-> e]

Yielded(vs) == [op |-> "iter", raised |-> "", values |-> vs]

Done(op) == [op |-> op, raised |-> ""]

Called(entries, e) == <<entries[1]>> \o Recent(Tail(entries), e)

\* self.dequeue(), resolved by the class of self.
dequeue(cls, els) ==
    CASE cls = "Queue" -> Queue_dequeue(els)
      [] cls = "Stack" -> Stack_dequeue(els)
      [] cls = "PriorityQueue" -> PriorityQueue_dequeue(els)
      [] cls = "MutableMinHeap" -> MutableMinHeap_dequeue(els)

\* Queue and Stack define peak; PriorityQueue and MutableMinHeap do not.
has_peak(cls) == cls \in {"Queue", "Stack"}

peak(cls, els) ==
    CASE cls = "Queue" -> Queue_peak(els)
      [] cls = "Stack" -> Stack_peak(els)

IterableMixin_iter_Once(cls, els, out) ==
    IF IterableMixin_len(els) > 0
    THEN LET r == dequeue(cls, els)
         IN  [values |-> Append(out, r.ret), elements |-> r.elements]
    ELSE [values |-> out, elements |-> els]

\* IterableMixin.__iter__ run until it is exhausted: out is what it has
\* yielded so far.
RECURSIVE IterableMixin_iter(_, _, _)
IterableMixin_iter(cls, els, out) ==
    IF IterableMixin_len(els) > 0
    THEN LET r == dequeue(cls, els)
         IN  IterableMixin_iter(cls, r.elements, Append(out, r.ret))
    ELSE [values |-> out, elements |-> els]

\* Queue(), Stack(), PriorityQueue() or MutableMinHeap().
InitClient ==
    /\ NoPath
    /\ NoTraversal
    /\ NoProcesses
    /\ NoPool
    /\ \E cls \in Classes : log = <<[op |-> "init", cls |-> cls]>>
    /\ elements = <<>>
    /\ counter = 0
    /\ elements_by_value = <<>>

\* container.enqueue(x) on a Queue or a Stack.
ClientEnqueue ==
    /\ UNCHANGED <<pathVars, poolVars, procVars>>
    /\ ClassOf \in {"Queue", "Stack"}
    /\ IterableMixin_len(elements) < MaxHeld
    /\ \E x \in Values : elements' = Queue_enqueue(elements, x)
    /\ log' = Called(log, Done("enqueue"))
    /\ UNCHANGED <<counter, elements_by_value>>

\* container.enqueue_with_priority(p, x) on a PriorityQueue.
ClientEnqueueWithPriority ==
    /\ UNCHANGED <<pathVars, poolVars, procVars>>
    /\ ClassOf = "PriorityQueue"
    /\ counter < MaxHeld
    /\ \E p \in Priorities, x \in Values :
          LET r == PriorityQueue_enqueue_with_priority(elements, counter, p, x)
          IN  /\ elements' = r.elements
              /\ counter' = r.counter
    /\ log' = Called(log, Done("enqueue"))
    /\ UNCHANGED elements_by_value

\* container[k] = p on a MutableMinHeap.
ClientSetitem ==
    /\ UNCHANGED <<pathVars, poolVars, procVars>>
    /\ ClassOf = "MutableMinHeap"
    /\ \E k \in Keys, p \in Priorities :
          LET r == MutableMinHeap_setitem(elements, elements_by_value, counter, k, p)
          IN  /\ elements' = r.elements
              /\ elements_by_value' = r.elements_by_value
              /\ counter' = r.counter
    /\ log' = Called(log, Done("enqueue"))

\* container.dequeue(): popleft, pop and heappop raise IndexError when there
\* is nothing to remove.
ClientDequeue ==
    /\ UNCHANGED <<pathVars, poolVars, procVars>>
    /\ IF IterableMixin_len(elements) = 0
       THEN /\ log' = Called(log, Raised("dequeue", "IndexError"))
            /\ UNCHANGED elements
       ELSE LET r == dequeue(ClassOf, elements)
            IN  /\ elements' = r.elements
                /\ log' = Called(log, Returned("dequeue", r.ret))
    /\ UNCHANGED <<counter, elements_by_value>>

\* container.peak(): the attribute lookup raises AttributeError on a class
\* without peak, and indexing an empty deque raises IndexError.
ClientPeak ==
    /\ UNCHANGED <<pathVars, poolVars, procVars>>
    /\ log' = Called(log,
                     IF ~has_peak(ClassOf) THEN Raised("peak", "AttributeError")
                     ELSE IF IterableMixin_len(elements) = 0
                          THEN Raised("peak", "IndexError")
                          ELSE Returned("peak", peak(ClassOf, elements)))
    /\ UNCHANGED <<elements, counter, elements_by_value>>

\* list(container): the iteration of the container until it is exhausted.
ClientIter ==
    /\ UNCHANGED <<pathVars, poolVars, procVars>>
    /\ LET r == IterableMixin_iter(ClassOf, elements, <<>>)
       IN  /\ elements' = r.elements
           /\ log' = Called(log, Yielded(r.values))
    /\ UNCHANGED <<counter, elements_by_value>>

NextClient ==
    \/ ClientEnqueue
    \/ ClientEnqueueWithPriority
    \/ ClientSetitem
    \/ ClientDequeue
    \/ ClientPeak
    \/ ClientIter

SpecClient == InitClient /\ [][NextClient]_vars

(***************************************************************************)
(* Claims on the containers.                                               *)
(***************************************************************************)

\* C5: the values a Queue has returned from dequeue are, in order, the first
\* values that were enqueued: the k-th dequeue returns the k-th enqueued value.
C5_FifoOrder == Dequeued = SubSeq(Enqueued, 1, Len(Dequeued))

\* Two dequeues that returned different values, with a value still held.
C5_Witness ==
    /\ Len(Dequeued) >= 2
    /\ Dequeued[1] # Dequeued[2]
    /\ Len(elements) > 0

\* The number of enqueues less the number of dequeues strictly between the
\* calls i and j of the log.
Balance(i, j) ==
    Cardinality({n \in (i + 1)..(j - 1) : IsEnqueue(log[n])})
        - Cardinality({n \in (i + 1)..(j - 1) : IsDequeue(log[n])})

\* Call i enqueued the most recently enqueued item that no dequeue before call
\* j has returned: every item enqueued after it was dequeued before j.
MostRecentHeld(i, j) ==
    /\ i < j
    /\ IsEnqueue(log[i])
    /\ Balance(i, j) = 0
    /\ \A n \in (i + 1)..(j - 1) : IsEnqueue(log[n]) => Balance(n, j) < 0

\* Every enqueue of the log comes before every dequeue.
Drained == \A i, j \in DOMAIN log : IsDequeue(log[i]) /\ i < j => IsDequeue(log[j])

\* C6: each dequeue of a Stack returns the most recently enqueued item not yet
\* dequeued, and draining after the enqueues returns the items in the reverse
\* of the enqueue order.
C6_LifoOrder ==
    /\ \A j \in DOMAIN log :
          IsDequeue(log[j]) =>
              \E i \in DOMAIN log :
                  MostRecentHeld(i, j) /\ log[j].value = log[i].value
    /\ Drained => Dequeued = SubSeq(Reverse(Enqueued), 1, Len(Dequeued))

\* A dequeue, then an enqueue, then a dequeue of another value while the first
\* item enqueued is still on the stack.
C6_Witness ==
    /\ Len(log) >= 5
    /\ IsEnqueue(log[1]) /\ IsEnqueue(log[2]) /\ IsDequeue(log[3])
    /\ IsEnqueue(log[4]) /\ IsDequeue(log[5])
    /\ log[5].value # log[3].value
    /\ log[1].value # log[5].value
    /\ Len(elements) = 1

\* Of the enqueues `held` (indices of the log), the one a stable priority
\* order serves first: the highest priority, and the earliest among those.
Best(held) ==
    CHOOSE i \in held :
        \A j \in held :
            \/ log[i].priority > log[j].priority
            \/ log[i].priority = log[j].priority /\ i <= j

\* The enqueues still held after the first n calls of the log, when every
\* dequeue takes the best one.
RECURSIVE HeldAfter(_)
HeldAfter(n) ==
    IF n = 0 THEN {}
    ELSE IF IsEnqueue(log[n]) THEN HeldAfter(n - 1) \cup {n}
    ELSE HeldAfter(n - 1) \ {Best(HeldAfter(n - 1))}

\* C7: each dequeue of a PriorityQueue returns the value that was enqueued with
\* the highest priority among the elements held, the first enqueued of them.
C7_HighestFirstStable ==
    \A n \in DOMAIN log :
        IsDequeue(log[n]) => log[n].value = log[Best(HeldAfter(n - 1))].value

\* A dequeue that chose between two held values of the same, highest priority
\* while a value of lower priority, enqueued before both, was held too.
C7_Witness ==
    \E n \in DOMAIN log :
        /\ IsDequeue(log[n])
        /\ \E i, j, k \in HeldAfter(n - 1) :
              /\ k < i /\ i < j
              /\ log[i].priority = log[j].priority
              /\ log[i].value # log[j].value
              /\ log[k].priority < log[i].priority
              /\ i = Best(HeldAfter(n - 1))

\* The keys that have an entry in the heap.
HeapKeys(els) == {els[i].value : i \in DOMAIN els}

\* Whether key k comes no later than key k2: by (current priority, sequence
\* number of the first insertion).
ComesFirst(by_value, k, k2) ==
    \/ MutableMinHeap_getitem(by_value, k) < MutableMinHeap_getitem(by_value, k2)
    \/ /\ MutableMinHeap_getitem(by_value, k) = MutableMinHeap_getitem(by_value, k2)
       /\ by_value[k].count <= by_value[k2].count

\* The call that the step made.
ThisCall == log'[Len(log')]

\* What one call on a MutableMinHeap does to getPriority and what it returns.
C8_Step ==
    /\ \A k \in DOMAIN elements_by_value' :
          /\ MutableMinHeap_getitem(elements_by_value', k) =
                IF IsSetitem(ThisCall) /\ ThisCall.key = k
                THEN ThisCall.priority
                ELSE MutableMinHeap_getitem(elements_by_value, k)
          /\ elements_by_value'[k].count =
                IF k \in DOMAIN elements_by_value
                THEN elements_by_value[k].count
                ELSE Cardinality(DOMAIN elements_by_value)
    /\ IsDequeue(ThisCall) =>
          /\ ThisCall.value \in HeapKeys(elements)
          /\ \A k2 \in HeapKeys(elements) :
                ComesFirst(elements_by_value, ThisCall.value, k2)

\* C8: getPriority(key) is the priority most recently set for the key (a call
\* changes it for the key it sets and for no other), and a dequeue returns the
\* key of the lowest current priority among the keys in the heap, the first
\* inserted of them.
C8_SetThenGetThenDequeue == [][C8_Step]_vars

\* A key other than the first inserted had its priority set in place and was
\* returned by the dequeue that followed, ahead of two other keys.
C8_Witness ==
    /\ Len(log) = 2
    /\ IsSetitem(log[1]) /\ IsDequeue(log[2])
    /\ log[2].value = log[1].key
    /\ elements_by_value[log[1].key].count = 1
    /\ counter = 3
    /\ Len(elements) = 2

\* C9: every key of the key-to-entry mapping has exactly one entry in the heap.
C9_EveryKeyInHeap ==
    \A k \in DOMAIN elements_by_value :
        Cardinality({i \in DOMAIN elements : elements[i].value = k}) = 1

(***************************************************************************)
(* Claims on shortest_path.                                                *)
(***************************************************************************)

\* The nodes that a walk of at most k edges from s reaches.
RECURSIVE Within(_, _, _)
Within(net, s, k) ==
    IF k = 0 THEN {s}
    ELSE LET near == Within(net, s, k - 1)
         IN  near \cup UNION {net[n] : n \in near}

Reachable(net, s, d) == d \in Within(net, s, NumNodes)

\* The least number of edges of a walk from s to d, which s reaches.
Distance(net, s, d) ==
    CHOOSE k \in 0..NumNodes :
        /\ d \in Within(net, s, k)
        /\ k > 0 => d \notin Within(net, s, k - 1)

IsPath(net, p) ==
    /\ Len(p) >= 1
    /\ \A i \in 1..(Len(p) - 1) : p[i + 1] \in net[p[i]]

\* C10: when destination differs from source and is reachable from it,
\* shortest_path returns a path of the graph from source to destination with
\* the least number of edges, whatever order the neighbors come in.
C10_ShortestPath ==
    (/\ sp_pc = "return"
     /\ source # destination
     /\ Reachable(network, source, destination))
    => /\ result.type = "list"
       /\ IsPath(network, result.items)
       /\ result.items[1] = source
       /\ result.items[Len(result.items)] = destination
       /\ Len(result.items) - 1 = Distance(network, source, destination)

\* A graph where destination is two edges away by one route and three edges
\* away by another (1-2, 2-5 and 1-3, 3-4, 4-5): the search returned the route
\* of two edges after it had visited the first node of the longer one.
C10_Witness ==
    /\ sp_pc = "return"
    /\ source = 1 /\ destination = 5
    /\ network = (1 :> {2, 3} @@ 2 :> {1, 5} @@ 3 :> {1, 4}
                    @@ 4 :> {3, 5} @@ 5 :> {2, 4})
    /\ result = List(<<1, 2, 5>>)
    /\ 3 \in visited

\* C11: shortest_path returns the empty list when destination is unreachable
\* from source, and what it returns when source is destination differs from
\* that empty list.
C11_UnreachableToldFromTrivial ==
    sp_pc = "return" =>
        /\ ~Reachable(network, source, destination) => result = List(<<>>)
        /\ source = destination => result # List(<<>>)

(***************************************************************************)
(* Claims on the traversals.                                               *)
(***************************************************************************)
Range(s) == {s[i] : i \in DOMAIN s}

NoRepeats(s) == \A i, j \in DOMAIN s : s[i] = s[j] => i = j

IsPrefix(s, t) == Len(s) <= Len(t) /\ s = SubSeq(t, 1, Len(s))

\* The nodes that root reaches in the graph that is traversed.
ReachedFromRoot == Within(tr_network, root, NumCities)

\* The least number of edges from root to a node that root reaches.
Hops(n) ==
    CHOOSE k \in 0..NumCities :
        /\ n \in Within(tr_network, root, k)
        /\ k > 0 => n \notin Within(tr_network, root, k - 1)

\* C12: traverse_network_bfs terminates and yields every node that root
\* reaches exactly once and no other node, and a second run on the same graph,
\* root and neighbor order yields the same sequence.
C12_BfsYieldsReachableOnce ==
    /\ <>(Len(outputs) >= 2)
    /\ [](running = "bfs" =>
             NoRepeats(yielded) /\ Range(yielded) \subseteq ReachedFromRoot)
    /\ [](Len(outputs) >= 1 =>
             NoRepeats(outputs[1]) /\ Range(outputs[1]) = ReachedFromRoot)
    /\ [](Len(outputs) >= 2 => outputs[2] = outputs[1])

\* Two runs over a triangle, which is a cycle, with a node that root does not
\* reach.
C12_Witness ==
    /\ Len(outputs) = 2
    /\ tr_network = (1 :> {2, 3} @@ 2 :> {1, 3} @@ 3 :> {1, 2} @@ 4 :> {})
    /\ outputs[1] = <<1, 3, 2>>
    /\ outputs[2] = <<1, 3, 2>>

\* C13: traverse_network_dfs terminates and yields every node that root
\* reaches exactly once and no other node: the set of nodes that it yields is
\* the set that traverse_network_bfs yields from the same root.
C13_DfsYieldsWhatBfsYields ==
    /\ <>(Len(outputs) = 3)
    /\ [](running = "dfs" =>
             NoRepeats(yielded) /\ Range(yielded) \subseteq ReachedFromRoot)
    /\ [](Len(outputs) = 3 =>
             /\ NoRepeats(outputs[3])
             /\ Range(outputs[3]) = ReachedFromRoot
             /\ Range(outputs[3]) = Range(outputs[1]))

\* Over a graph of four nodes the two traversals yielded the same nodes in
\* different orders.
C13_Witness ==
    /\ Len(outputs) = 3
    /\ Len(outputs[3]) = 4
    /\ outputs[3] # outputs[1]
    /\ Range(outputs[3]) = Range(outputs[1])

\* The neighbors of the nodes of `level`, in order, that come new after `old`.
RECURSIVE NextLevel(_, _, _)
NextLevel(level, old, new) ==
    IF level = <<>> THEN new
    ELSE NextLevel(Tail(level), old,
                   new \o SelectSeq(iter_neighbors(neighbor_order, Head(level)),
                                    LAMBDA m : m \notin Range(old \o new)))

\* The reference breadth-first order: level after level, each level in the
\* order its nodes are found in.
RECURSIVE BfsReference(_, _)
BfsReference(done, level) ==
    IF level = <<>> THEN done
    ELSE BfsReference(done \o level, NextLevel(level, done \o level, <<>>))

\* C19: traverse_network_bfs yields the nodes in the order of the reference
\* breadth-first traversal with the same neighbor order, hence by hop distance
\* from root, never decreasing.
C19_BfsOrder ==
    /\ running = "bfs" => IsPrefix(yielded, BfsReference(<<>>, <<root>>))
    /\ Len(outputs) >= 1 =>
          /\ outputs[1] = BfsReference(<<>>, <<root>>)
          /\ \A i \in 1..(Len(outputs[1]) - 1) :
                Hops(outputs[1][i]) <= Hops(outputs[1][i + 1])

\* A graph 1-2, 1-3, 2-4 where 3 comes before 2 among the neighbors of 1: the
\* node 4, two edges away, is yielded after both neighbors of the root.
C19_Witness ==
    /\ Len(outputs) = 1
    /\ tr_network = (1 :> {2, 3} @@ 2 :> {1, 4} @@ 3 :> {1} @@ 4 :> {2})
    /\ outputs[1] = <<1, 3, 2, 4>>

\* The reference depth-first preorder, by recursion: a node, then, for each of
\* its neighbors in order that is not visited yet, the preorder from it.
RECURSIVE DfsVisit(_, _)
RECURSIVE DfsEach(_, _)
DfsVisit(n, acc) == DfsEach(iter_neighbors(neighbor_order, n), Append(acc, n))

DfsEach(ns, acc) ==
    IF ns = <<>> THEN acc
    ELSE DfsEach(Tail(ns),
                 IF Head(ns) \in Range(acc) THEN acc ELSE DfsVisit(Head(ns), acc))

\* C20: traverse_network_dfs yields the nodes in the order of the recursive
\* depth-first preorder with the same neighbor order, and it pops a pair from
\* its stack only when the neighbor iterator of the pair is exhausted.
C20_DfsPreorder ==
    /\ [](running = "dfs" => IsPrefix(yielded, DfsVisit(root, <<>>)))
    /\ [](Len(outputs) = 3 => outputs[3] = DfsVisit(root, <<>>))
    /\ [][running = "dfs" /\ Len(tr_q') < Len(tr_q)
              => Stack_peak(tr_q)[2] = <<>>]_vars

\* A graph 1-2, 1-3, 2-4 where 2 comes before 3 among the neighbors of 1: the
\* node 4 is yielded before 3, after the pairs of 4 and 2 were popped.
C20_Witness ==
    /\ Len(outputs) = 3
    /\ tr_network = (1 :> {2, 3} @@ 2 :> {1, 4} @@ 3 :> {1} @@ 4 :> {2})
    /\ outputs[3] = <<1, 2, 4, 3>>

(***************************************************************************)
(* The claims on the crawler.                                              *)
(***************************************************************************)
\* The part of the loop of worker() between queue.get() and queue.task_done().
Expanding(w) == pc[w] \in {"fetch", "put", "finally"}

\* C1: each Job a worker dequeues is followed by exactly one task_done() of
\* that worker on every path through the try statement, and task_done() is
\* never called without a dequeue before it: a worker holds one Job that is
\* not signalled yet while it is between the two calls and none when it is
\* back at queue.get(), and task_done() never raises ValueError.
C1_OneSignalPerDequeue ==
    \A w \in Workers :
        /\ holding[w] = IF Expanding(w) THEN 1 ELSE 0
        /\ exc[w] # "ValueError"

\* Both workers are back at queue.get() after a crawl with children, with a
\* fetch that raised, and with Jobs whose fetch returned or was skipped.
C1_Witness ==
    /\ num_workers = 2
    /\ \A w \in Workers : pc[w] = "get" /\ holding[w] = 0
    /\ failures = 1
    /\ Total(puts) >= 3
    /\ Total(links) = Total(puts)
    /\ unfinished_tasks = 0

\* C2: when queue.join() returns to main, the queue is empty, every worker
\* waits at queue.get(), and every Job that was put, the seed and the
\* children, was dequeued and counted in links; join() returns no earlier.
C2_JoinReleasesWhenAllIsDone ==
    main_pc = "cancel" =>
        /\ queue = <<>>
        /\ unfinished_tasks = 0
        /\ \A w \in Workers : pc[w] = "get" /\ holding[w] = 0 /\ found[w] = <<>>
        /\ links = puts

\* queue.join() has returned after a crawl of the seed and of children.
C2_Witness ==
    /\ main_pc = "cancel"
    /\ num_workers = 2
    /\ Total(links) >= 3
    /\ Cardinality(DOMAIN links) >= 2

C4_WorkersCancelledMainReturns ==
    /\ <>[](/\ main_pc = "done"
            /\ \A w \in Workers : pc[w] = "cancelled"
            /\ gathered = [w \in Workers |-> "CancelledError"])
    /\ [](main_pc # "raised")
    /\ [][\A w \in Workers : cancelling # {} \/ pc[w] = "cancelled"
                                 => links' = links]_vars

\* main has ended after both workers were cancelled.
C4_Witness ==
    /\ main_pc = "done"
    /\ num_workers = 2
    /\ \A w \in Workers : pc[w] = "cancelled"
    /\ gathered = [w \in Workers |-> "CancelledError"]
    /\ Total(links) >= 2

\* The enqueues of the log that are held when call n is made (every Job
\* returned so far is taken off at its earliest enqueue still held).
RECURSIVE HeldJobs(_)
HeldJobs(n) ==
    IF n = 0 THEN {}
    ELSE IF IsEnqueue(log[n]) THEN HeldJobs(n - 1) \cup {n}
    ELSE HeldJobs(n - 1) \ {CHOOSE i \in HeldJobs(n - 1) :
                                /\ log[i].value = log[n].value
                                /\ \A j \in HeldJobs(n - 1) :
                                      log[j].value = log[n].value => i <= j}

\* C14: the frontier returns a Job of the least key len(url) among the Jobs
\* it holds, and of the Jobs of that key the one that was put first.
C14_FrontierStableTies ==
    \A n \in DOMAIN log :
        IsDequeue(log[n]) =>
            \E i \in HeldJobs(n - 1) :
                /\ log[i].value = log[n].value
                /\ \A j \in HeldJobs(n - 1) :
                      \/ Len(log[i].value.url) < Len(log[j].value.url)
                      \/ /\ Len(log[i].value.url) = Len(log[j].value.url)
                         /\ (i <= j \/ log[j].value = log[i].value)

\* The step in which a worker dequeues the seed.
SeedDequeued == Total(links) = 0 /\ Total(links') = 1

\* C15, as the specification states it: the seed Job has depth 0, and with
\* max_depth = 1 the worker that dequeues it goes on to fetch it.
C15_SeedAtDepthZero ==
    [][SeedDequeued =>
          \E w \in Workers :
              /\ depth'[w] = 0
              /\ max_depth = 1 => pc'[w] = "fetch"]_vars

\* C15, amended: the seed Job has depth 1; with max_depth = 2 it is fetched,
\* its links are put at depth 2, no child is fetched, and once queue.join()
\* has returned every url that was put has its count in links; with
\* max_depth = 1 the seed itself is not fetched and nothing else is put.
C15_SeedAtDepthOne ==
    /\ [][SeedDequeued =>
             \E w \in Workers :
                 /\ depth'[w] = 1
                 /\ pc'[w] = IF max_depth >= 2 THEN "fetch" ELSE "finally"]_vars
    /\ [](max_depth = 2 =>
             /\ Total(links) >= 1 => \A i \in DOMAIN queue : queue[i].depth = 2
             /\ \A w \in Workers : pc[w] \in {"fetch", "put"} => depth[w] = 1
             /\ main_pc \in {"cancel", "gather", "display", "done"} =>
                    \A url \in DOMAIN puts :
                        url \in DOMAIN links /\ links[url] = puts[url])
    /\ [](max_depth = 1 =>
             /\ Total(puts) <= 1
             /\ \A w \in Workers : pc[w] \notin {"fetch", "put"})

\* A crawl with max_depth = 2 has ended: the seed and two children of
\* different urls were dequeued.
C15_Witness ==
    /\ max_depth = 2
    /\ main_pc = "done"
    /\ Total(links) = 3
    /\ Cardinality(DOMAIN links) >= 2

\* The number kept for key in a Counter: 0 for a key it does not hold.
CountOf(c, key) == IF key \in DOMAIN c THEN c[key] ELSE 0

\* The Jobs of one url that wait in the frontier.
InFrontier(url) == Cardinality({i \in DOMAIN queue : queue[i].url = url})

\* C16: links[url] is the number of Jobs of that url that were dequeued,
\* which is the Jobs of that url put less those still in the frontier; once
\* queue.join() has returned the frontier is empty, so that the counts of
\* links add up to the number of Jobs that were put.
C16_LinksCountDequeues ==
    /\ \A url \in Urls :
           CountOf(links, url) + InFrontier(url) = CountOf(puts, url)
    /\ DOMAIN links \subseteq Urls
    /\ Total(links) + Len(queue) = Total(puts)
    /\ main_pc \in {"cancel", "gather", "display", "done"} =>
           /\ \A url \in Urls : InFrontier(url) = 0
           /\ Total(links) = Total(puts)

\* main has displayed links after a crawl in which two workers dequeued one
\* url more than once.
C16_Witness ==
    /\ main_pc = "done"
    /\ num_workers = 2
    /\ \E url \in DOMAIN links : links[url] >= 2
    /\ Cardinality(DOMAIN links) >= 2

(***************************************************************************)
(* Claims on a container and its client.                                   *)
(***************************************************************************)

\* The items of the set S of heap entries of class cls, least first.
RECURSIVE Ascending(_, _)
Ascending(cls, S) ==
    IF S = {} THEN <<>>
    ELSE LET least == CHOOSE x \in S : \A y \in S \ {x} : Lt(cls, x, y)
         IN  <<least>> \o Ascending(cls, S \ {least})

\* What successive dequeues return from a container of class cls that holds
\* els: the oldest first from a Queue, the newest first from a Stack, the
\* value of the least entry first from the two heaps.
DequeueOrder(cls, els) ==
    CASE cls = "Queue" -> els
      [] cls = "Stack" -> Reverse(els)
      [] cls = "PriorityQueue" ->
            LET sorted == Ascending("tuple", Range(els))
            IN  [i \in DOMAIN sorted |-> sorted[i][3]]
      [] cls = "MutableMinHeap" ->
            LET sorted == Ascending("Element", Range(els))
            IN  [i \in DOMAIN sorted |-> sorted[i].value]

\* C17: iterating a Queue, a Stack, a PriorityQueue or a MutableMinHeap
\* yields every element it holds once, in the order in which dequeue would
\* return them, and leaves it with length 0; iterating it again straight
\* away yields nothing.
C17_IterationDrains ==
    /\ [][ThisCall.op = "iter" =>
             /\ ThisCall.raised = ""
             /\ ThisCall.values = DequeueOrder(ClassOf, elements)
             /\ Len(ThisCall.values) = Len(elements)
             /\ Len(elements') = 0]_vars
    /\ [](Len(log) = 3 /\ log[2].op = "iter" /\ log[3].op = "iter" =>
             log[3].values = <<>> /\ Len(elements) = 0)

\* A PriorityQueue of three elements was iterated twice: the first pass
\* yielded the three values, the second nothing.
C17_Witness ==
    /\ ClassOf = "PriorityQueue"
    /\ counter = 3
    /\ Len(log) = 3
    /\ log[2].op = "iter" /\ log[2].values = <<"b", "a", "b">>
    /\ log[3].op = "iter" /\ log[3].values = <<>>
    /\ elements = <<>>

\* What one call of dequeue or peak does.
C18_Step ==
        /\ ThisCall.op \in {"dequeue", "peak"} /\ Len(elements) = 0 =>
              /\ ThisCall.raised # ""
              /\ elements' = <<>>
              /\ counter' = counter
              /\ elements_by_value' = elements_by_value
        /\ ThisCall.op = "peak" /\ ClassOf \in {"Queue", "Stack"}
                                /\ Len(elements) > 0 =>
              /\ ThisCall.raised = ""
              /\ ThisCall.value = DequeueOrder(ClassOf, elements)[1]
              /\ elements' = elements

\* C18: dequeue and peak on a container that holds nothing raise an error,
\* return no value and leave the container empty and unchanged; peak on a
\* Queue or Stack that holds something returns what the next dequeue
\* returns and leaves the container as it was.
C18_EmptyRaisesPeakKeeps ==
    /\ [][C18_Step]_vars
    /\ [](Len(log) = 3 /\ log[2].op = "peak" /\ log[2].raised = ""
                       /\ log[3].op = "dequeue" =>
             log[3].raised = "" /\ log[3].value = log[2].value)

\* peak on a Stack of two different values returned the newer, and the
\* dequeue after it returned the same value and left the older.
C18_Witness ==
    /\ ClassOf = "Stack"
    /\ Len(log) = 3
    /\ log[2].op = "peak" /\ log[2].raised = "" /\ log[2].value = "b"
    /\ log[3].op = "dequeue" /\ log[3].raised = "" /\ log[3].value = "b"
    /\ elements = <<"a">>

(***************************************************************************)
(* Claims on the depth of Jobs and on the count of unfinished tasks.       *)
(***************************************************************************)

\* The Jobs of depth d that wait in the frontier.
AtDepth(q, d) == Cardinality({i \in DOMAIN q : q[i].depth = d})

\* C21: a worker fetches, and puts children, only for a Job of depth below
\* max_depth; each child it puts has the depth of its parent plus 1; so no
\* Job in the frontier is deeper than max_depth and a Job of depth max_depth
\* or more is never expanded.
C21_DepthBound ==
    /\ [](\A w \in Workers : pc[w] \in {"fetch", "put"} =>
             depth[w] >= 1 /\ depth[w] < max_depth)
    /\ [](\A i \in DOMAIN queue :
             queue[i].depth >= 1 /\ queue[i].depth <= max_depth)
    /\ [][\A w \in Workers :
             found'[w] # found[w] /\ pc[w] = "put" =>
                 /\ Len(queue') = Len(queue) + 1
                 /\ \A d \in 0..(MaxJobs + 2) :
                       AtDepth(queue', d) =
                          AtDepth(queue, d) + IF d = depth[w] + 1 THEN 1 ELSE 0]_vars

\* With max_depth = 3 a worker dequeued a Job of depth 3, a link of a link
\* of the seed, and goes to task_done() without fetching it.
C21_Witness ==
    /\ max_depth = 3
    /\ \E w \in Workers : pc[w] = "finally" /\ depth[w] = 3 /\ exc[w] = "none"
    /\ Total(links) = 3

\* The workers that dequeued a Job and have not called task_done() for it.
Busy == {w \in Workers : Expanding(w)}

\* C22: the count of unfinished tasks is the number of Jobs in the frontier
\* plus the number of workers between queue.get() and queue.task_done(); a
\* worker reaches task_done() only after it put every link it found, and
\* main waits only after it put the seed; so the count is 0, and the Event
\* that queue.join() waits for is set, only when no Job is queued and none
\* is being expanded.
C22_UnfinishedCountsQueuedAndHeld ==
    /\ unfinished_tasks = Len(queue) + Cardinality(Busy)
    /\ finished <=> (queue = <<>> /\ Busy = {})
    /\ \A w \in Workers : pc[w] = "finally" => found[w] = <<>>
    /\ main_pc \in {"join", "wait"} => Total(puts) >= 1
    /\ main_pc = "wait" /\ join_waiter = "pending" => unfinished_tasks > 0

\* main waits in queue.join() while one worker has put the first link of a
\* page and has another to put, and the other worker, which dequeued that
\* first link, is about to signal.
C22_Witness ==
    /\ main_pc = "wait"
    /\ join_waiter = "pending"
    /\ num_workers = 2
    /\ \E w \in Workers : pc[w] = "put" /\ found[w] # <<>>
    /\ \E w \in Workers : pc[w] = "finally"
    /\ Total(puts) = 2
    /\ unfinished_tasks = 2

(***************************************************************************)
(* Claims on the pool of processes.                                        *)
(***************************************************************************)

\* C23: when a worker has put a solution on queue_out, main does not print
\* "Unable to find a solution", whatever the workers did before main looks
\* at them again.
C23_SolutionPutIsReported ==
    (\E i \in DOMAIN printed : printed[i] = "Unable to find a solution") =>
        queue_out = <<>>

====
